---- MODULE Spec2Model ----
(***************************************************************************)
(* Model of src/app.py: the Lambda handler that stages LaTeX source in     *)
(* /tmp, runs pdflatex twice and returns the PDF base64-encoded, or a      *)
(* structured error.                                                       *)
(*                                                                         *)
(* pdflatex, the filesystem, uuid.uuid4 and sys.stdout are outside the     *)
(* repository: each call to them is a nondeterministic choice over the     *)
(* outcomes the call can have (a value returned, or an exception raised).  *)
(* The host fixes whether sys.stdout takes what print writes and whether   *)
(* a SIGINT can reach the process.                                         *)
(***************************************************************************)
EXTENDS Integers, Sequences, FiniteSets, TLC

VARIABLES
    event,      \* event[p]: the payload of invocation p (a dict: key -> value)
    pc,         \* pc[p]: the position of invocation p in handler
    unique_id,  \* unique_id[p]: the identifier of line 24 ("" before it)
    process,    \* process[p]: the CompletedProcess bound by the loop of line 34
    passes,     \* passes[p]: loop iterations of line 34 completed
    response,   \* response[p]: the dict handler returned (NoResponse before it returns)
    fs,         \* the files of working_dir: path -> file
    issued,     \* the identifiers uuid.uuid4 has returned so far
    runlog,     \* history: runlog[p] has one entry per call of subprocess.run by p
    pdf_from,   \* history: the invocation whose compiler run wrote the pdf p read
    fault,      \* history: fault[p] is <<str(e)>> once an exception e was raised in p
    child,      \* child[p]: how far the pdflatex child of p got ("none": no child)
    stdout,     \* sys.stdout, where print writes: "open", "broken" or "closed"
    interrupts  \* TRUE when a SIGINT can reach the process while handler runs

\* what the host decides; handler never changes it
host == <<stdout, interrupts>>

vars ==
    <<event, pc, unique_id, process, passes, response, fs, issued, runlog, pdf_from,
      fault, child, stdout, interrupts>>

----------------------------------------------------------------------------
(* Bounds of the model *)

\* longest PDF content enumerated exhaustively over PdfBytes
MaxPdfLen == 3

\* the invocations that may run concurrently against one working_dir
Procs == {1, 2}

\* the single invocation of specification Spec
Solo == {1}

\* the values uuid.uuid4 may return
Ids == {"0f8fad5b", "7c9e6679"}

\* byte values PDF contents are built from: all bits clear, '%', all bits set
PdfBytes == {0, 37, 255}

RECURSIVE ByteSeqs(_)
ByteSeqs(n) ==
    IF n = 0 THEN {<< >>}
    ELSE LET S == ByteSeqs(n - 1)
         IN S \cup {Append(s, b) : s \in {t \in S : Len(t) = n - 1}, b \in PdfBytes}

\* "%PDF-1": the head of a real PDF file
PdfSignature == <<37, 80, 68, 70, 45, 49>>

----------------------------------------------------------------------------
(* Python values of the payload *)

PyStr(s) == [kind |-> "str", s |-> s, n |-> 0]
PyInt(n) == [kind |-> "int", s |-> "", n |-> n]
PyNone == [kind |-> "none", s |-> "", n |-> 0]

\* a test for None alone: `latex_source is None`
TruthyNotNone(v) == v.kind # "none"

\* `not latex_source` of line 17 is the negation of Python truthiness
Truthy(v) ==
    CASE v.kind = "str" -> v.s # ""
      [] v.kind = "int" -> v.n # 0
      [] OTHER -> FALSE

\* dict.get(key): the value, None when the key is absent
DictGet(d, key) == IF key \in DOMAIN d THEN d[key] ELSE PyNone

GoodHead == "\\documentclass{article}"
GoodSource == PyStr(GoodHead \o "\\begin{document}Hi\\end{document}")
BadSource == PyStr("\\badcommandxyz")

\* a str holding a lone surrogate, what json.loads gives for the JSON text
\* "\ud800"; written here by its escape
SurrogateSource == PyStr("\\ud800")

\* whether the utf-8 encoder of the text file accepts the text
Encodable(s) == s # SurrogateSource.s

\* what a write that raises OSError can leave in the file: nothing, or a
\* proper prefix of the text (the prefixes enumerated: GoodHead of GoodSource)
Truncations(s) == {""} \cup {h \in {GoodHead} : s = GoodSource.s}

----------------------------------------------------------------------------
(* base64.b64encode(...).decode() of line 68 (RFC 4648, standard alphabet) *)

B64Alphabet ==
    << "A", "B", "C", "D", "E", "F", "G", "H", "I", "J", "K", "L", "M",
       "N", "O", "P", "Q", "R", "S", "T", "U", "V", "W", "X", "Y", "Z",
       "a", "b", "c", "d", "e", "f", "g", "h", "i", "j", "k", "l", "m",
       "n", "o", "p", "q", "r", "s", "t", "u", "v", "w", "x", "y", "z",
       "0", "1", "2", "3", "4", "5", "6", "7", "8", "9", "+", "/" >>

\* the character of a 6-bit value
B64Char(v) == B64Alphabet[v + 1]

\* a truncated encoder: drops the final partial group instead of padding it
RECURSIVE b64encode_nopad(_)
b64encode_nopad(b) ==
    IF Len(b) < 3 THEN << >>
    ELSE LET n == b[1] * 65536 + b[2] * 256 + b[3]
         IN << B64Char(n \div 262144), B64Char((n \div 4096) % 64),
               B64Char((n \div 64) % 64), B64Char(n % 64) >>
            \o b64encode_nopad(SubSeq(b, 4, Len(b)))

\* bytes -> text: 3 bytes give 4 characters, the last group is padded with "="
RECURSIVE b64encode(_)
b64encode(b) ==
    IF Len(b) = 0 THEN << >>
    ELSE IF Len(b) = 1 THEN
        << B64Char(b[1] \div 4), B64Char((b[1] % 4) * 16), "=", "=" >>
    ELSE IF Len(b) = 2 THEN
        LET n == b[1] * 256 + b[2]
        IN << B64Char(n \div 1024), B64Char((n \div 16) % 64),
              B64Char((n % 16) * 4), "=" >>
    ELSE
        LET n == b[1] * 65536 + b[2] * 256 + b[3]
        IN << B64Char(n \div 262144), B64Char((n \div 4096) % 64),
              B64Char((n \div 64) % 64), B64Char(n % 64) >>
           \o b64encode(SubSeq(b, 4, Len(b)))

----------------------------------------------------------------------------
(* Paths of lines 23-29 *)

working_dir == "/tmp"

base_filename(id) == "document_" \o id

\* os.path.join(working_dir, name)
PathJoin(dir, name) == dir \o "/" \o name

tex_file_path(id) == PathJoin(working_dir, base_filename(id) \o ".tex")
pdf_file_path(id) == PathJoin(working_dir, base_filename(id) \o ".pdf")
log_path(id) == PathJoin(working_dir, base_filename(id) \o ".log")

Paths == UNION {{tex_file_path(i), pdf_file_path(i), log_path(i)} : i \in Ids}

\* a file: its content and (history) the invocation whose step wrote it
Absent == [exists |-> FALSE]
File(data, owner) == [exists |-> TRUE, data |-> data, owner |-> owner]

----------------------------------------------------------------------------
(* The dicts handler returns *)

NoResponse == [statusCode |-> 0]

\* lines 18-21
MissingSource ==
    [statusCode |-> 400, body |-> "Missing \"latex_source\" in the event payload!"]

\* an error response that reports the captured standard output
CompileErrorResponseStdout(proc) ==
    [statusCode |-> 500, body |-> "Latex compilation error: " \o proc.stdout]

\* lines 49-52
CompileErrorResponse(proc) ==
    [statusCode |-> 500, body |-> "Latex compilation error: " \o proc.stderr]

\* a success response that also names a download file
PdfResponseWithDisposition(encoded_string) ==
    [statusCode |-> 200,
     headers |-> ("Content-Type" :> "application/pdf")
                 @@ ("Content-Disposition" :> "attachment; filename=\"document.pdf\""),
     body |-> encoded_string,
     isBase64Encoded |-> TRUE]

\* lines 70-77
PdfResponse(encoded_string) ==
    [statusCode |-> 200,
     headers |-> ("Content-Type" :> "application/pdf"),
     body |-> encoded_string,
     isBase64Encoded |-> TRUE]

\* an except clause that answers as if the compiler had failed
UnexpectedErrorAsCompileError(desc) ==
    [statusCode |-> 500, body |-> "Latex compilation error: " \o desc]

\* lines 79-84: the except clause; desc is str(e)
UnexpectedError(desc) ==
    [statusCode |-> 500, body |-> "Unexpected error: " \o desc]

(* str(e) of the exceptions the calls of handler can raise *)
PermissionDenied(path) == "[Errno 13] Permission denied: '" \o path \o "'"
NoSuchFile(path) == "[Errno 2] No such file or directory: '" \o path \o "'"
WriteTypeError == "write() argument must be str, not int"
EncodeError ==
    "'utf-8' codec can't encode character '\\ud800' in position 0: surrogates not allowed"
NoSpace == "[Errno 28] No space left on device"
DecodeError == "'utf-8' codec can't decode byte 0xe9 in position 0: invalid continuation byte"
IOError == "[Errno 5] Input/output error"
ClosedFile == "I/O operation on closed file."
BrokenPipe == "[Errno 32] Broken pipe"
\* str(KeyboardInterrupt())
Interrupted == ""

----------------------------------------------------------------------------
(* What the collaborators can do *)

\* uuid.uuid4() of line 24 returns a value it has not returned before
uuid4_repeating == Ids
uuid4 == Ids \ issued

\* number of loop iterations of line 34: range(2)
Passes3 == 2 + 1
Passes == 2

\* process before the loop binds it
Unbound == [bound |-> FALSE, returncode |-> 0, stdout |-> "", stderr |-> ""]

Completed(rc, out, err) ==
    [bound |-> TRUE, returncode |-> rc, stdout |-> out, stderr |-> err]

\* the loop body rebinds process on every iteration: the last run's result stays
RebindKeepFirst(previous, result) == IF previous.bound THEN previous ELSE result
Rebind(previous, result) == result

\* line 44
Failed(proc) == proc.returncode # 0

\* what one pdflatex run may do to its .log file: leave it, or write it
Writes(contents) ==
    {[op |-> "keep"]} \cup {[op |-> "write", data |-> c] : c \in contents}

\* what one pdflatex run may do to its .pdf file: also remove it
Effects(contents) == Writes(contents) \cup {[op |-> "delete"]}

Apply(file, effect, owner) ==
    CASE effect.op = "keep" -> file
      [] effect.op = "delete" -> Absent
      [] OTHER -> File(effect.data, owner)

\* the outcomes of pdflatex the model draws from: W.codes, W.stdouts, W.stderrs,
\* W.pdfs, W.logs
Rich ==
    [codes |-> {0, 1},
     stdouts |-> {"This is pdfTeX"},
     stderrs |-> {"", "! Undefined control sequence."},
     pdfs |-> ByteSeqs(MaxPdfLen) \cup {PdfSignature},
     logs |-> {"l.1 \\badcommandxyz"}]

Small ==
    [codes |-> {0, 1},
     stdouts |-> {"This is pdfTeX"},
     stderrs |-> {"! Undefined control sequence."},
     pdfs |-> {PdfSignature},
     logs |-> {"l.1 \\badcommandxyz"}]

----------------------------------------------------------------------------
(* handler, one action per step *)

\* a return statement
Return(p, r) ==
    /\ response' = [response EXCEPT ![p] = r]
    /\ pc' = [pc EXCEPT ![p] = "done"]

\* a SIGINT that reaches the process while handler runs raises
\* KeyboardInterrupt at the line being executed
Signals == IF interrupts THEN {[ok |-> FALSE, exception |-> FALSE, desc |-> Interrupted]}
           ELSE {}

\* a call of print (lines 14, 41, 42, 48, 69, 80): what it can do. An open
\* stdout takes the text; a closed one raises ValueError; a broken one (its
\* reader gone, its disk full) takes the text or raises OSError; and a
\* SIGINT may arrive while it writes. exception: the class derives from
\* Exception
PrintOutcomes ==
    Signals \cup
    (CASE stdout = "open" -> {[ok |-> TRUE]}
       [] stdout = "closed" -> {[ok |-> FALSE, exception |-> TRUE, desc |-> ClosedFile]}
       [] OTHER -> {[ok |-> TRUE], [ok |-> FALSE, exception |-> TRUE, desc |-> BrokenPipe]})

\* an exception that no except clause of handler catches: it leaves handler,
\* which returns nothing. That is an exception raised outside the try block
\* (line 14), one raised inside the except clause (line 80), and one that is
\* not an Exception (KeyboardInterrupt), which "except Exception" lets pass
Propagate(p, desc) ==
    /\ fault' = [fault EXCEPT ![p] = <<desc>>]
    /\ pc' = [pc EXCEPT ![p] = "raised"]
    /\ UNCHANGED response

\* KeyboardInterrupt raised at the line handler is executing
Interrupt(p) ==
    /\ interrupts
    /\ Propagate(p, Interrupted)

\* lines 79-84: an Exception raised inside the try block reaches the except
\* clause, which prints (line 80) and returns (lines 81-84); when that print
\* raises, or a SIGINT arrives during it, the exception leaves handler
Raise(p, desc) ==
    \E out \in PrintOutcomes :
        IF out.ok
        THEN /\ fault' = [fault EXCEPT ![p] = <<desc>>]
             /\ Return(p, UnexpectedError(desc))
        ELSE Propagate(p, out.desc)

\* line 79 for what a print inside the try block raised: "except Exception"
\* matches an Exception and lets anything else pass
Throw(p, e) ==
    IF e.exception THEN Raise(p, e.desc) ELSE Propagate(p, e.desc)

\* lines 14-21: the print before the try block, whose exception nothing
\* catches, then the test of latex_source
Validate(p) ==
    /\ pc[p] = "start"
    /\ \E out \in PrintOutcomes :
          IF ~out.ok
          THEN Propagate(p, out.desc)
          ELSE LET latex_source == DictGet(event[p], "latex_source")
               IN /\ IF ~Truthy(latex_source)
                     THEN Return(p, MissingSource)
                     ELSE /\ pc' = [pc EXCEPT ![p] = "stage"]
                          /\ UNCHANGED response
                  /\ UNCHANGED fault
    /\ UNCHANGED <<event, unique_id, process, passes, fs, issued, runlog, pdf_from,
                   child>>
    /\ UNCHANGED host

\* lines 23-31: the identifier, the paths, and open(tex_file_path, 'w'), which
\* creates the file empty (or truncates it) before anything is written. A
\* SIGINT may arrive before the identifier is drawn, before the file is
\* opened or after
Stage(p) ==
    /\ pc[p] = "stage"
    /\ \/ /\ Interrupt(p)
          /\ UNCHANGED <<unique_id, issued, fs>>
       \/ \E id \in uuid4 :
            LET path == tex_file_path(id)
            IN /\ unique_id' = [unique_id EXCEPT ![p] = id]
               /\ issued' = issued \cup {id}
               /\ \/ \* open raises OSError
                     /\ Raise(p, PermissionDenied(path))
                     /\ UNCHANGED fs
                  \/ /\ fs' = [fs EXCEPT ![path] = File("", p)]
                     /\ pc' = [pc EXCEPT ![p] = "write"]
                     /\ UNCHANGED <<response, fault>>
                  \/ /\ Interrupt(p)
                     /\ UNCHANGED fs
                  \/ /\ Interrupt(p)
                     /\ fs' = [fs EXCEPT ![path] = File("", p)]
    /\ UNCHANGED <<event, process, passes, runlog, pdf_from, child>>
    /\ UNCHANGED host

\* line 32 and the end of the with block: f.write(latex_source), close.
\* A non-str raises TypeError and text that utf-8 cannot encode raises
\* UnicodeEncodeError, both before a byte is written; writing or closing may
\* raise OSError with none or part of the text on disk; a SIGINT may arrive
\* with none, part or all of the text on disk. The file is never removed.
WriteSource(p) ==
    /\ pc[p] = "write"
    /\ LET latex_source == DictGet(event[p], "latex_source")
           path == tex_file_path(unique_id[p])
       IN \/ IF latex_source.kind # "str"
             THEN /\ Raise(p, WriteTypeError)
                  /\ UNCHANGED fs
             ELSE IF ~Encodable(latex_source.s)
             THEN /\ Raise(p, EncodeError)
                  /\ UNCHANGED fs
             ELSE \/ /\ fs' = [fs EXCEPT ![path] = File(latex_source.s, p)]
                     /\ pc' = [pc EXCEPT ![p] = "compile"]
                     /\ UNCHANGED <<response, fault>>
                  \/ \E part \in Truncations(latex_source.s) :
                        /\ fs' = [fs EXCEPT ![path] = File(part, p)]
                        /\ Raise(p, NoSpace)
                  \/ \E part \in Truncations(latex_source.s) \cup {latex_source.s} :
                        /\ fs' = [fs EXCEPT ![path] = File(part, p)]
                        /\ Interrupt(p)
          \/ /\ Interrupt(p)
             /\ UNCHANGED fs
    /\ UNCHANGED <<event, unique_id, process, passes, issued, runlog, pdf_from, child>>
    /\ UNCHANGED host

\* a loop body that swallows the exception and goes on to the next iteration
LaunchFailsContinue(p) ==
    /\ runlog' = [runlog EXCEPT ![p] = Append(@, [outcome |-> "not_launched"])]
    /\ passes' = [passes EXCEPT ![p] = @ + 1]
    /\ pc' = [pc EXCEPT ![p] = IF passes[p] + 1 < Passes THEN "compile" ELSE "inspect"]
    /\ UNCHANGED <<process, response, fault, child>>

\* lines 35-39 when subprocess.run raises before pdflatex runs (the binary is
\* missing): nothing inside the loop catches it
LaunchFails(p) ==
    /\ Raise(p, NoSuchFile("pdflatex"))
    /\ runlog' = [runlog EXCEPT ![p] = Append(@, [outcome |-> "not_launched"])]
    /\ UNCHANGED <<process, passes, child>>

\* lines 34-36: the loop enters an iteration and calls subprocess.run, which
\* starts pdflatex and blocks until the child ends. A SIGINT may arrive
\* before the call or inside it, before the child runs
Launch(p) ==
    /\ pc[p] = "compile"
    /\ passes[p] < Passes
    /\ \/ LaunchFails(p)
       \/ /\ child' = [child EXCEPT ![p] = "started"]
          /\ pc' = [pc EXCEPT ![p] = "running"]
          /\ runlog' = [runlog EXCEPT ![p] = Append(@, [outcome |-> "running"])]
          /\ UNCHANGED <<process, passes, response, fault>>
       \/ /\ Interrupt(p)
          /\ UNCHANGED <<process, passes, child, runlog>>
       \/ /\ Interrupt(p)
          /\ runlog' = [runlog EXCEPT ![p] = Append(@, [outcome |-> "interrupted"])]
          /\ UNCHANGED <<process, passes, child>>
    /\ UNCHANGED <<event, unique_id, fs, issued, pdf_from>>
    /\ UNCHANGED host

\* -output-directory=working_dir and the .tex path of line 36: the child of p
\* opens document_<unique_id[p]>.log early in its run (or leaves it)
CompilerWritesLog(p, W) ==
    /\ pc[p] = "running"
    /\ child[p] = "started"
    /\ \E log \in Writes(W.logs) :
          fs' = [fs EXCEPT ![log_path(unique_id[p])] = Apply(@, log, p)]
    /\ child' = [child EXCEPT ![p] = "logged"]
    /\ UNCHANGED <<event, pc, unique_id, process, passes, response, issued, runlog,
                   pdf_from, fault>>
    /\ UNCHANGED host

\* later the child writes document_<unique_id[p]>.pdf, removes it or leaves it
CompilerWritesPdf(p, W) ==
    /\ pc[p] = "running"
    /\ child[p] = "logged"
    /\ \E pdf \in Effects(W.pdfs) :
          fs' = [fs EXCEPT ![pdf_file_path(unique_id[p])] = Apply(@, pdf, p)]
    /\ child' = [child EXCEPT ![p] = "written"]
    /\ UNCHANGED <<event, pc, unique_id, process, passes, response, issued, runlog,
                   pdf_from, fault>>
    /\ UNCHANGED host

\* lines 35-39: the child has ended; subprocess.run returns and process is
\* bound, or decoding the captured output raises (text=True). A SIGINT that
\* reaches the process while it waits, however far the child got, ends the
\* call with KeyboardInterrupt (the child is killed), which is not an
\* Exception: the except clause of line 79 does not run
RunReturns(p, W) ==
    /\ pc[p] = "running"
    /\ child' = [child EXCEPT ![p] = "none"]
    /\ \/ /\ child[p] = "written"
          /\ \E rc \in W.codes, out \in W.stdouts, err \in W.stderrs :
               LET result == Completed(rc, out, err)
               IN /\ process' = [process EXCEPT ![p] = Rebind(@, result)]
                  /\ passes' = [passes EXCEPT ![p] = @ + 1]
                  /\ pc' = [pc EXCEPT ![p] =
                              IF passes[p] + 1 < Passes THEN "compile" ELSE "inspect"]
                  /\ runlog' = [runlog EXCEPT ![p][Len(runlog[p])] =
                              [outcome |-> "returned", result |-> result]]
                  /\ UNCHANGED <<response, fault>>
       \/ /\ child[p] = "written"
          /\ Raise(p, DecodeError)
          /\ runlog' = [runlog EXCEPT ![p][Len(runlog[p])] = [outcome |-> "undecodable"]]
          /\ UNCHANGED <<process, passes>>
       \/ /\ Interrupt(p)
          /\ runlog' = [runlog EXCEPT ![p][Len(runlog[p])] = [outcome |-> "interrupted"]]
          /\ UNCHANGED <<process, passes>>
    /\ UNCHANGED <<event, unique_id, fs, issued, pdf_from>>
    /\ UNCHANGED host

\* lines 41-45, and 49-52 when there is no log file: the prints of the last
\* run's output, the test of the exit code and os.path.exists(log_path)
ReportCompileError(p) ==
    /\ pc[p] = "inspect"
    /\ Failed(process[p])
    /\ \E out \in PrintOutcomes :
          IF ~out.ok
          THEN Throw(p, out)
          ELSE /\ IF fs[log_path(unique_id[p])].exists
                  THEN /\ pc' = [pc EXCEPT ![p] = "readlog"]
                       /\ UNCHANGED response
                  ELSE Return(p, CompileErrorResponse(process[p]))
               /\ UNCHANGED fault
    /\ UNCHANGED <<event, unique_id, process, passes, fs, issued, runlog, pdf_from,
                   child>>
    /\ UNCHANGED host

\* lines 46-52: open(log_path, 'r', errors="ignore") and read(), where any
\* content decodes, the print of the log's tail, then the return; or the
\* open, the read or the print raises
ReadLog(p) ==
    /\ pc[p] = "readlog"
    /\ LET path == log_path(unique_id[p])
       IN \/ /\ fs[path].exists
             /\ \E out \in PrintOutcomes :
                   IF out.ok
                   THEN /\ Return(p, CompileErrorResponse(process[p]))
                        /\ UNCHANGED fault
                   ELSE Throw(p, out)
          \/ /\ fs[path].exists
             /\ Raise(p, IOError)
          \/ /\ ~fs[path].exists
             /\ Raise(p, NoSuchFile(path))
    /\ UNCHANGED <<event, unique_id, process, passes, fs, issued, runlog, pdf_from, child>>
    /\ UNCHANGED host

\* a read that yields no bytes for a missing file instead of raising
ReadBytesOrEmpty(file, path) ==
    IF file.exists
    THEN {[ok |-> TRUE, data |-> file.data, owner |-> file.owner],
          [ok |-> FALSE, desc |-> IOError]}
    ELSE {[ok |-> TRUE, data |-> << >>, owner |-> 0]}

\* lines 67-68: open(pdf_file_path, "rb") and read(): the outcomes. A missing
\* file raises FileNotFoundError; reading an existing one may raise OSError
ReadBytes(file, path) ==
    IF file.exists
    THEN {[ok |-> TRUE, data |-> file.data, owner |-> file.owner],
          [ok |-> FALSE, desc |-> IOError]}
    ELSE {[ok |-> FALSE, desc |-> NoSuchFile(path)]}

\* lines 41-44 and 67-77: the prints of the last run's output, the test of
\* the exit code, the read of the pdf, the print of line 69 and the return
ReturnPdf(p) ==
    /\ pc[p] = "inspect"
    /\ ~Failed(process[p])
    /\ LET path == pdf_file_path(unique_id[p])
       IN \E shown \in PrintOutcomes, read \in ReadBytes(fs[path], path),
             out \in PrintOutcomes :
            IF ~shown.ok
            THEN /\ Throw(p, shown)
                 /\ UNCHANGED pdf_from
            ELSE IF ~read.ok
            THEN /\ Raise(p, read.desc)
                 /\ UNCHANGED pdf_from
            ELSE IF ~out.ok
            THEN /\ Throw(p, out)
                 /\ UNCHANGED pdf_from
            ELSE /\ Return(p, PdfResponse(b64encode(read.data)))
                 /\ pdf_from' = [pdf_from EXCEPT ![p] = read.owner]
                 /\ UNCHANGED fault
    /\ UNCHANGED <<event, unique_id, process, passes, fs, issued, runlog, child>>
    /\ UNCHANGED host

----------------------------------------------------------------------------
(* Specifications *)

\* the payloads: latex_source absent, falsy, not a str, or LaTeX text, with
\* and without output_filename
SourceValues ==
    {PyNone, PyStr(""), PyInt(0), PyInt(7), GoodSource, BadSource, SurrogateSource}
Filename == PyStr("report.pdf")

Events ==
    {<< >>, [output_filename |-> Filename]}
    \cup {[latex_source |-> s] : s \in SourceValues}
    \cup {[latex_source |-> s, output_filename |-> Filename] : s \in {PyStr(""), GoodSource}}

\* the payloads of the concurrent specification
SmallEvents == {[latex_source |-> GoodSource], [latex_source |-> BadSource]}

\* a host where print always succeeds and no signal arrives
WorkingHost == [stdouts |-> {"open"}, interrupts |-> {FALSE}]

\* every host: stdout open, broken or closed, with and without SIGINT
AnyHost == [stdouts |-> {"open", "broken", "closed"}, interrupts |-> BOOLEAN]

\* line 13: handler is called with its payload; nothing has run yet
InitWith(E, H) ==
    /\ stdout \in H.stdouts
    /\ interrupts \in H.interrupts
    /\ event \in [Procs -> E]
    /\ pc = [p \in Procs |-> "start"]
    /\ unique_id = [p \in Procs |-> ""]
    /\ process = [p \in Procs |-> Unbound]
    /\ passes = [p \in Procs |-> 0]
    /\ response = [p \in Procs |-> NoResponse]
    /\ fs = [path \in Paths |-> Absent]
    /\ issued = {}
    /\ runlog = [p \in Procs |-> << >>]
    /\ pdf_from = [p \in Procs |-> 0]
    /\ fault = [p \in Procs |-> << >>]
    /\ child = [p \in Procs |-> "none"]

\* one invocation on a working host, every payload and every outcome of
\* pdflatex
Init ==
    /\ InitWith(Events, WorkingHost)
    /\ \A p \in Procs \ Solo : event[p] = << >>

Next ==
    \E p \in Solo :
        \/ Validate(p)
        \/ Stage(p)
        \/ WriteSource(p)
        \/ Launch(p)
        \/ CompilerWritesLog(p, Rich)
        \/ CompilerWritesPdf(p, Rich)
        \/ RunReturns(p, Rich)
        \/ ReportCompileError(p)
        \/ ReadLog(p)
        \/ ReturnPdf(p)

Spec == Init /\ [][Next]_vars

\* one invocation on any host
InitAnyHost ==
    /\ InitWith(Events, AnyHost)
    /\ \A p \in Procs \ Solo : event[p] = << >>

SpecAnyHost == InitAnyHost /\ [][Next]_vars

\* every invocation of Procs, interleaved step by step over one working_dir
InitConcurrent == InitWith(SmallEvents, WorkingHost)

NextConcurrent ==
    \E p \in Procs :
        \/ Validate(p)
        \/ Stage(p)
        \/ WriteSource(p)
        \/ Launch(p)
        \/ CompilerWritesLog(p, Small)
        \/ CompilerWritesPdf(p, Small)
        \/ RunReturns(p, Small)
        \/ ReportCompileError(p)
        \/ ReadLog(p)
        \/ ReturnPdf(p)

SpecConcurrent == InitConcurrent /\ [][NextConcurrent]_vars

----------------------------------------------------------------------------
(* Vocabulary of the properties *)

Returned(p, i) == Len(runlog[p]) >= i /\ runlog[p][i].outcome = "returned"

\* the result of the i-th run of p, when it returned
RunResult(p, i) == runlog[p][i].result

\* the .tex file of p was written: the loop of line 34 was reached
Staged(p) == pc[p] \in {"compile", "running", "inspect"} \/ runlog[p] # << >>

PdfOf(p) == fs[pdf_file_path(unique_id[p])]
LogOf(p) == fs[log_path(unique_id[p])]
TexOf(p) == fs[tex_file_path(unique_id[p])]

\* the payload has no latex_source, or None, or the empty string
MissingOrEmpty(e) ==
    \/ "latex_source" \notin DOMAIN e
    \/ e.latex_source = PyNone
    \/ e.latex_source = PyStr("")

\* the 6-bit value of a character of the alphabet
B64Value(c) == CHOOSE v \in 0..63 : B64Alphabet[v + 1] = c

B64WellFormed(s) ==
    /\ Len(s) % 4 = 0
    /\ \A i \in 1..Len(s) :
          \/ \E v \in 0..63 : B64Alphabet[v + 1] = s[i]
          \/ s[i] = "=" /\ i > Len(s) - 2

\* text -> bytes, what a client's base64 decoder computes (RFC 4648)
RECURSIVE b64decode(_)
b64decode(s) ==
    IF Len(s) < 4 THEN << >>
    ELSE IF s[3] = "=" THEN
        << B64Value(s[1]) * 4 + B64Value(s[2]) \div 16 >>
    ELSE IF s[4] = "=" THEN
        LET n == B64Value(s[1]) * 4096 + B64Value(s[2]) * 64 + B64Value(s[3])
        IN << n \div 1024, (n \div 4) % 256 >>
    ELSE
        LET n == B64Value(s[1]) * 262144 + B64Value(s[2]) * 4096
                 + B64Value(s[3]) * 64 + B64Value(s[4])
        IN << n \div 65536, (n \div 256) % 256, n % 256 >>
           \o b64decode(SubSeq(s, 5, Len(s)))

\* the text bodies handler builds are a fixed prefix followed by a captured
\* text; no exception text of the model has a captured stderr inside it
BodyContains(body, text) ==
    \/ text = ""
    \/ \E prefix \in {"", "Latex compilation error: ", "Unexpected error: "} :
          body = prefix \o text

\* the success response for a PDF file holding data
IsPdfResponse(r, data) ==
    /\ r.statusCode = 200
    /\ "headers" \in DOMAIN r
    /\ "Content-Type" \in DOMAIN r.headers
    /\ r.headers["Content-Type"] = "application/pdf"
    /\ "isBase64Encoded" \in DOMAIN r
    /\ r.isBase64Encoded = TRUE
    /\ B64WellFormed(r.body)
    /\ b64decode(r.body) = data

\* a plain error response: a status and a text body, nothing else
IsErrorResponse(r, status, body) ==
    /\ DOMAIN r = {"statusCode", "body"}
    /\ r.statusCode = status
    /\ r.body = body

----------------------------------------------------------------------------
(* Properties *)

\* C1: a request whose latex_source is missing or empty (falsy) goes from the
\* start straight to a status-400 response whose body names the field; it is
\* given no identifier, creates no file and never runs the compiler.
C1_MissingSource400 ==
    \A p \in Procs :
        MissingOrEmpty(event[p]) =>
            /\ pc[p] \in {"start", "done"}
            /\ unique_id[p] = ""
            /\ runlog[p] = << >>
            /\ fault[p] = << >>
            /\ \A path \in Paths : fs[path].exists => fs[path].owner # p
            /\ pc[p] = "done" =>
                 IsErrorResponse(response[p], 400,
                                 "Missing \"latex_source\" in the event payload!")

C1_Witness ==
    \E p \in Procs :
        /\ pc[p] = "done"
        /\ "latex_source" \in DOMAIN event[p]
        /\ event[p].latex_source = PyStr("")
        /\ response[p].statusCode = 400

\* C2: every invocation of handler ends by returning a structured response:
\* an invocation that has not returned can take a step, no exception leaves
\* handler, the response returned has a body and status 200, 400 or 500, and
\* once an exception was raised the response is status 500 with body
\* "Unexpected error: " + str(e).
C2_AlwaysStructuredResponse ==
    \A p \in Procs :
        /\ pc[p] \in {"start", "stage", "write", "compile", "running", "inspect", "readlog",
                    "done"}
        /\ pc[p] = "done" =>
              /\ response[p].statusCode \in {200, 400, 500}
              /\ "body" \in DOMAIN response[p]
        /\ fault[p] # << >> =>
              /\ pc[p] = "done"
              /\ IsErrorResponse(response[p], 500, "Unexpected error: " \o fault[p][1])
        /\ (p \in Solo /\ pc[p] # "done") => ENABLED Next

\* C3 as stated: every staged request has had the compiler invoked exactly
\* twice when handler returns, and never more than twice.
C3_ExactlyTwoRuns_Original ==
    \A p \in Procs :
        /\ Len(runlog[p]) <= 2
        /\ (Staged(p) /\ pc[p] = "done") => Len(runlog[p]) = 2

\* C3 as amended: once the first call of subprocess.run has returned, with
\* exit code zero or not, handler issues the second call before it inspects
\* anything or returns, and no third call is ever issued; the exit code is
\* inspected only after two calls.
C3_TwoRunsOnceFirstReturns ==
    \A p \in Procs :
        /\ Len(runlog[p]) <= 2
        /\ (Returned(p, 1) /\ pc[p] = "done") => Len(runlog[p]) = 2
        /\ pc[p] = "inspect" => (Returned(p, 1) /\ Returned(p, 2))
        /\ (Staged(p) /\ pc[p] = "done" /\ Len(runlog[p]) < 2) =>
              (Len(runlog[p]) = 1 /\ ~Returned(p, 1) /\ fault[p] # << >>)

C3_Witness ==
    \E p \in Procs :
        /\ pc[p] = "done"
        /\ Returned(p, 1)
        /\ RunResult(p, 1).returncode # 0
        /\ Len(runlog[p]) = 2

\* C4 as stated: the second run alone decides: whenever it exits non-zero the
\* status is 500 (also after a passing first run), whenever it exits zero and
\* the PDF is present the status is 200 (also after a failing first run), and
\* the error body is built from the second run's stderr.
C4_SecondRunDecides_Original ==
    \A p \in Procs :
        (pc[p] = "done" /\ Returned(p, 1) /\ Returned(p, 2)) =>
            LET second == RunResult(p, 2)
            IN /\ second.returncode # 0 => response[p].statusCode = 500
               /\ (second.returncode = 0 /\ PdfOf(p).exists) =>
                     response[p].statusCode = 200
               /\ (response[p].statusCode = 500 /\ fault[p] = << >>) =>
                     response[p].body = "Latex compilation error: " \o second.stderr

\* C4 as amended: as C4, the PDF being present and read without a fault.
C4_SecondRunDecides ==
    \A p \in Procs :
        (pc[p] = "done" /\ Returned(p, 1) /\ Returned(p, 2)) =>
            LET second == RunResult(p, 2)
            IN /\ second.returncode # 0 => response[p].statusCode = 500
               /\ (second.returncode = 0 /\ PdfOf(p).exists /\ fault[p] = << >>) =>
                     response[p].statusCode = 200
               /\ (second.returncode = 0 /\ (~PdfOf(p).exists \/ fault[p] # << >>)) =>
                     response[p].statusCode = 500
               /\ (response[p].statusCode = 500 /\ fault[p] = << >>) =>
                     response[p].body = "Latex compilation error: " \o second.stderr

C4_Witness ==
    \E p \in Procs :
        /\ pc[p] = "done"
        /\ Returned(p, 1) /\ Returned(p, 2)
        /\ RunResult(p, 1).returncode # 0
        /\ RunResult(p, 1).stderr # ""
        /\ RunResult(p, 2).returncode = 0
        /\ response[p].statusCode = 200

\* C5 as stated: whenever the second run exits non-zero, the response is a
\* plain status-500 error (no headers, no isBase64Encoded, no PDF content)
\* whose non-empty body contains that run's stderr, whatever .pdf or .log
\* file is on disk.
C5_CompileError500_Original ==
    \A p \in Procs :
        (pc[p] = "done" /\ Returned(p, 2) /\ RunResult(p, 2).returncode # 0) =>
            /\ DOMAIN response[p] = {"statusCode", "body"}
            /\ response[p].statusCode = 500
            /\ response[p].body # ""
            /\ BodyContains(response[p].body, RunResult(p, 2).stderr)

\* C5 as amended: whenever the second run exits non-zero, the response is a
\* plain status-500 error with a non-empty text body, whatever .pdf file is
\* on disk; the body is "Latex compilation error: " + that run's stderr
\* whether the .log file is absent or present and whatever it holds, unless
\* reading an existing .log file raises, and then it is the except clause's
\* "Unexpected error: " + str(e).
C5_CompileError500 ==
    \A p \in Procs :
        (pc[p] = "done" /\ Returned(p, 2) /\ RunResult(p, 2).returncode # 0) =>
            /\ DOMAIN response[p] = {"statusCode", "body"}
            /\ response[p].statusCode = 500
            /\ response[p].body # ""
            /\ IF fault[p] = << >>
               THEN response[p].body =
                       "Latex compilation error: " \o RunResult(p, 2).stderr
               ELSE /\ LogOf(p).exists
                    /\ response[p].body = "Unexpected error: " \o fault[p][1]

C5_Witness ==
    \E p \in Procs :
        /\ pc[p] = "done"
        /\ Returned(p, 2)
        /\ RunResult(p, 2).returncode # 0
        /\ RunResult(p, 2).stderr # ""
        /\ PdfOf(p).exists
        /\ ~LogOf(p).exists
        /\ response[p].body = "Latex compilation error: " \o RunResult(p, 2).stderr

\* C6 as stated: whenever the second run exits zero and the .pdf file exists,
\* the response is status 200 with Content-Type application/pdf,
\* isBase64Encoded true and a body that decodes to the file's bytes; and a
\* status-200 response is returned in that situation only.
C6_PdfRoundTrip_Original ==
    \A p \in Procs :
        /\ (pc[p] = "done" /\ Returned(p, 2) /\ RunResult(p, 2).returncode = 0
              /\ PdfOf(p).exists) =>
                 IsPdfResponse(response[p], PdfOf(p).data)
        /\ (pc[p] = "done" /\ response[p].statusCode = 200) =>
              (Returned(p, 2) /\ RunResult(p, 2).returncode = 0 /\ PdfOf(p).exists)

\* C6 as amended: as C6, with "the .pdf file exists and is read without a
\* fault" for "the .pdf file exists".
C6_PdfRoundTrip ==
    \A p \in Procs :
        /\ (pc[p] = "done" /\ Returned(p, 2) /\ RunResult(p, 2).returncode = 0
              /\ PdfOf(p).exists /\ fault[p] = << >>) =>
                 IsPdfResponse(response[p], PdfOf(p).data)
        /\ (pc[p] = "done" /\ response[p].statusCode = 200) =>
              /\ Returned(p, 2) /\ RunResult(p, 2).returncode = 0
              /\ PdfOf(p).exists /\ fault[p] = << >>
              /\ IsPdfResponse(response[p], PdfOf(p).data)

C6_Witness ==
    \E p \in Procs :
        /\ pc[p] = "done"
        /\ response[p].statusCode = 200
        /\ PdfOf(p).data = PdfSignature
        /\ b64decode(response[p].body) = PdfSignature

\* C7 as stated: a status-200 response to a request that supplies
\* output_filename has a Content-Disposition header.
C7_ContentDisposition_Original ==
    \A p \in Procs :
        (pc[p] = "done" /\ response[p].statusCode = 200
           /\ "output_filename" \in DOMAIN event[p]) =>
              "Content-Disposition" \in DOMAIN response[p].headers

\* C7 as amended: output_filename is never read: a status-200 response to a
\* request that supplies it has the one header Content-Type: application/pdf
\* and no Content-Disposition header.
C7_FilenameIgnored ==
    \A p \in Procs :
        (pc[p] = "done" /\ response[p].statusCode = 200
           /\ "output_filename" \in DOMAIN event[p]) =>
              /\ DOMAIN response[p] = {"statusCode", "headers", "body", "isBase64Encoded"}
              /\ DOMAIN response[p].headers = {"Content-Type"}
              /\ response[p].headers["Content-Type"] = "application/pdf"

C7_Witness ==
    \E p \in Procs :
        /\ pc[p] = "done"
        /\ response[p].statusCode = 200
        /\ "output_filename" \in DOMAIN event[p]
        /\ event[p].output_filename = Filename

\* C8: invocations running concurrently over one working_dir, uuid4 never
\* repeating a value, have different identifiers and so disjoint paths; the
\* .tex file of a staged invocation keeps the source that invocation wrote,
\* every .pdf and .log file under an identifier was written by the compiler
\* run of the invocation holding that identifier, and the PDF an invocation
\* returns was written by its own compiler run.
C8_NoCollision ==
    /\ \A p, q \in Procs :
          (p # q /\ unique_id[p] # "" /\ unique_id[q] # "") =>
              /\ unique_id[p] # unique_id[q]
              /\ {tex_file_path(unique_id[p]), pdf_file_path(unique_id[p]),
                  log_path(unique_id[p])}
                 \cap {tex_file_path(unique_id[q]), pdf_file_path(unique_id[q]),
                       log_path(unique_id[q])} = {}
    /\ \A p \in Procs :
          /\ Staged(p) =>
                TexOf(p) = File(DictGet(event[p], "latex_source").s, p)
          /\ pdf_from[p] \in {0, p}
          /\ unique_id[p] # "" =>
                /\ PdfOf(p).exists => PdfOf(p).owner = p
                /\ LogOf(p).exists => LogOf(p).owner = p

\* invocation 1 is blocked inside its first subprocess.run, its child has
\* written the .log and not yet the .pdf, while invocation 2 has run both of
\* its passes and returned its own PDF
C8_Witness ==
    /\ pc[1] = "running" /\ child[1] = "logged" /\ passes[1] = 0
    /\ LogOf(1).exists /\ ~PdfOf(1).exists
    /\ pc[2] = "done" /\ response[2].statusCode = 200 /\ pdf_from[2] = 2
    /\ event[1] # event[2]

\* C9: when the second run exits zero and the .pdf file is missing, or
\* reading it raises, the response is never status 200: it is the except
\* clause's plain status-500 response "Unexpected error: " + str(e), for a
\* missing file the FileNotFoundError naming the .pdf path.
C9_MissingPdfIs500 ==
    \A p \in Procs :
        (pc[p] = "done" /\ Returned(p, 2) /\ RunResult(p, 2).returncode = 0
           /\ (~PdfOf(p).exists \/ fault[p] # << >>)) =>
              /\ fault[p] # << >>
              /\ ~PdfOf(p).exists =>
                    fault[p][1] = NoSuchFile(pdf_file_path(unique_id[p]))
              /\ IsErrorResponse(response[p], 500, "Unexpected error: " \o fault[p][1])

C9_Witness ==
    \E p \in Procs :
        /\ pc[p] = "done"
        /\ Returned(p, 2)
        /\ RunResult(p, 2).returncode = 0
        /\ ~PdfOf(p).exists
        /\ response[p].statusCode = 500

\* C10: when the first call of subprocess.run raises before pdflatex runs,
\* handler returns at once: there is no second call, process is never bound
\* (no exit code or output to inspect), the response is the plain status-500
\* "Unexpected error: " + str(e), and the staged .tex file stays on disk.
C10_FirstLaunchFaultAborts ==
    \A p \in Procs :
        (runlog[p] # << >> /\ runlog[p][1].outcome = "not_launched") =>
            /\ Len(runlog[p]) = 1
            /\ pc[p] = "done"
            /\ ~process[p].bound
            /\ passes[p] = 0
            /\ IsErrorResponse(response[p], 500,
                               "Unexpected error: " \o NoSuchFile("pdflatex"))
            /\ TexOf(p) = File(DictGet(event[p], "latex_source").s, p)
            /\ ~PdfOf(p).exists /\ ~LogOf(p).exists

C10_Witness ==
    \E p \in Procs :
        /\ Len(runlog[p]) = 1
        /\ runlog[p][1].outcome = "not_launched"
        /\ pc[p] = "done"
        /\ TexOf(p).exists

====
